---- MODULE Spec2Model ----
(***************************************************************************)
(* The concurrent Markov-chain table builder of fine-grain/main.go:        *)
(* Prefix, Chain.Insert over a sync.Map, and Chain.Build with its seven    *)
(* strategies (sequential, BuildGoLock, BuildGoChannel(s), BuildTPLock,    *)
(* BuildTPChannel(s)).  One Build call is modelled per behaviour; every    *)
(* goroutine is a task that takes one step per access to shared state      *)
(* (the sync.Map, the channel, the WaitGroup).  Computation on a task's    *)
(* own locals is folded into the shared step that follows or precedes it.  *)
(* Chain.Generate, which main calls once Build has returned, is specified  *)
(* separately (GenSpec) from the states the sequential Build returns in.   *)
(*                                                                         *)
(* A []string stored in the table is modelled by its contents.  Go's       *)
(* append writes in place only when the slice has spare capacity, which    *)
(* for capacities 1, 2, 4 first happens on a slice of length 3; two tasks  *)
(* appending to the same backing array need five Inserts on one key, more  *)
(* than the corpora below produce, so within the bounds append always      *)
(* copies and the contents are the whole value.                            *)
(***************************************************************************)
EXTENDS Integers, Sequences, FiniteSets, Bags, TLC

VARIABLES words, prefixLen, workers, inserters,
          chain, ch, closed, wg, task, fault, returned

vars == <<words, prefixLen, workers, inserters,
          chain, ch, closed, wg, task, fault, returned>>

(* ------------------------------ bounds -------------------------------- *)
MaxLen == 3
MaxPrefix == 2
MaxWorkers == 3
MaxInserters == 2
MaxWords == 3
Tokens == {"a", "b"}

(* ------------------------- program constants -------------------------- *)
ChanDepth == 8
Nil == <<>>

(* ------------------------------ helpers ------------------------------- *)
min(x, y) == IF x < y THEN x ELSE y

RECURSIVE Join(_, _)
Join(s, sep) ==
    IF s = <<>> THEN ""
    ELSE IF Len(s) = 1 THEN s[1]
    ELSE s[1] \o sep \o Join(Tail(s), sep)

String(p) == Join(p, " ")

\* Shift without `copy(p, p[1:])`: the last word is overwritten
ShiftOverwriteLast(p, word) == [p EXCEPT ![Len(p)] = word]

\* copy(p, p[1:]); p[len(p)-1] = word
Shift(p, word) == Tail(p) \o <<word>>

NewPrefix(len) == [i \in 1..len |-> ""]

\* words[i] with Go's 0-based index
Word(i) == words[i + 1]

\* words[lo:hi] with Go's 0-based half-open bounds
\* a window that starts and ends one token late
SliceOneLate(lo, hi) == SubSeq(words, lo + 2, hi + 1)

\* words[lo:hi]
Slice(lo, hi) == SubSeq(words, lo + 1, hi)

(* ------------------------------- tasks -------------------------------- *)
Main == <<"main", 0>>
Prod(i) == <<"prod", i>>
Cons(i) == <<"cons", i>>

\* the locals of one goroutine: where it is (pc), the Insert call or the
\* WorkItem it is busy with (key, word, values), its rolling Prefix (p) and
\* its loop cursor over words (j, bounded by end; start is the segment start).
\* Two fields are history the code does not keep, recorded to state what an
\* Insert call went through: solo, whether no other Insert on the same key
\* has been in flight since the call began, and seen, how many collections
\* had been stored at the key when the call last loaded it.
NewTask(kind, pc) ==
    [kind |-> kind, pc |-> pc, key |-> "", word |-> "", values |-> Nil,
     p |-> <<>>, j |-> 0, start |-> 0, end |-> 0, solo |-> TRUE, seen |-> 0]

Running == fault = "none"

\* the channel's capacity: make(chan pair, 8) or make(chan pair, workers)
ChanCap == IF workers = 0 THEN ChanDepth ELSE workers

\* a loop body that inserts directly under every strategy
BodyPcDirect == "load"

\* the body of `for _, word := range words[..]` either inserts directly or
\* publishes a WorkItem
BodyPc == IF workers = 1 \/ inserters = 0 THEN "load" ELSE "send"

\* wg.Done() is the last statement of every goroutine.  It touches only the
\* counter, which no other step of a producer or a consumer reads, so it is
\* taken in the same step as the statement before it: a task whose pc is
\* "done" has run it.
\* a task that calls wg.Done() after every send or Insert
DoneCountEachStep(r) == 1

DoneCount(r) == IF r.pc = "done" THEN 1 ELSE 0

\* the counter after wg.Done() by `dones` tasks, and the panic of a counter
\* that drops below zero
WgDone(counter, dones) == counter - dones
WgFault(counter, dones) ==
    IF WgDone(counter, dones) < 0 THEN "negative WaitGroup counter" ELSE "none"

\* where a task goes when its loop over words is exhausted
ExitPc(kind) ==
    CASE kind = "seq"    -> "returned"
      [] kind = "seed"   -> "spawn"
      [] kind = "worker" -> "done"

\* top of `for _, word := range ...`: key := p.String() for the next word,
\* or leave the loop
RangeNext(r) ==
    IF r.j < r.end
    THEN [r EXCEPT !.pc = BodyPc, !.key = String(r.p), !.word = Word(r.j),
                   !.values = Nil, !.solo = TRUE, !.seen = 0]
    ELSE [r EXCEPT !.pc = ExitPc(r.kind), !.key = "", !.word = "",
                   !.values = Nil, !.solo = TRUE, !.seen = 0]

\* what a task does once its Insert call, or its channel send, has returned
Advance(r) ==
    CASE r.kind \in {"seq", "seed", "worker"} ->
            RangeNext([r EXCEPT !.p = Shift(r.p, r.word), !.j = r.j + 1])
      [] r.kind = "gotask" ->
            [r EXCEPT !.pc = "done", !.values = Nil, !.solo = TRUE,
                      !.seen = 0]
      [] r.kind = "consumer" ->
            [r EXCEPT !.pc = "recv", !.key = "", !.word = "", !.values = Nil,
                      !.solo = TRUE, !.seen = 0]

(* --------------------------- configurations --------------------------- *)
SeqsUpTo(len) == UNION {[1..k -> Tokens] : k \in 0..len}

\* the program only compares tokens for equality, so a corpus stands for
\* every renaming of it: the first token is always "a"
Corpora(len) == {w \in SeqsUpTo(len) : w = <<>> \/ w[1] = "a"}

\* simple.txt, the corpus of the correctness test
SimpleWords ==
    <<"I", "am", "not", "a", "number!", "I", "am", "a", "free", "man!">>

SmallConfigs ==
    [w : Corpora(MaxLen), p : 1..MaxPrefix, W : 0..MaxWorkers,
     I : 0..MaxInserters]

\* a corpus and a prefix one longer than the channel is deep
DeepConfigs ==
    {[w |-> [k \in 1..(ChanDepth + 1) |-> "a"], p |-> ChanDepth + 1,
      W |-> 0, I |-> i] : i \in 1..MaxInserters}

\* RunTest(t, 1, 0)
TestConfigs == {[w |-> SimpleWords, p |-> 2, W |-> 1, I |-> 0]}

Configs == SmallConfigs \cup DeepConfigs \cup TestConfigs

Init ==
    /\ \E c \in Configs :
          /\ words = c.w
          /\ prefixLen = c.p
          /\ workers = c.W
          /\ inserters = c.I
    /\ chain = <<>>
    /\ ch = <<>>
    /\ closed = FALSE
    /\ wg = 0
    /\ task = (Main :> NewTask("main", "build"))
    /\ fault = "none"
    /\ returned = EmptyBag

config == <<words, prefixLen, workers, inserters>>

(* ---------------------------- Chain.Insert ---------------------------- *)
\* an append that forgets the collection it loaded
AppendWordForgets(values, word) == <<word>>

\* values = append(make([]string, 0), word) / append(values.([]string), word)
AppendWord(values, word) ==
    IF values = Nil THEN <<word>> ELSE Append(values, word)

\* sync.Map.Load: the value, or nil when the key is absent
MapLoad(m, key) == IF key \in DOMAIN m THEN m[key] ELSE Nil

\* sync.Map.Delete
\* a Delete that leaves the key in place
MapDeleteKeeps(m, key) == m

MapDelete(m, key) == [k \in (DOMAIN m) \ {key} |-> m[k]]

\* sync.Map.Store of an absent key
MapStore(m, key, values) == (key :> values) @@ m

InInsert(r) == r.pc \in {"load", "delete", "store"}

\* the history fields.  Overlap: another task is inside Insert on the key
\* of t's call; Mark clears solo for the calls that overlap now.  Stores: the
\* number of collections stored at the key so far, one per Insert call that
\* has returned.
Overlap(f, t) ==
    /\ InInsert(f[t])
    /\ \E u \in (DOMAIN f) \ {t} : InInsert(f[u]) /\ f[u].key = f[t].key
Mark(f) ==
    [t \in DOMAIN f |->
        IF Overlap(f, t) THEN [f[t] EXCEPT !.solo = FALSE] ELSE f[t]]
Stores(key) ==
    LET at == {pr \in BagToSet(returned) : pr[1] = key}
    IN  BagCardinality([pr \in at |-> returned[pr]])

\* values, _ := c.chain.Load(key)
InsertLoad ==
    \E t \in DOMAIN task :
        /\ Running
        /\ task[t].pc = "load"
        /\ task' = [task EXCEPT ![t].values = MapLoad(chain, task[t].key),
                                ![t].seen = Stores(task[t].key),
                                ![t].pc = "delete"]
        /\ UNCHANGED <<config, chain, ch, closed, wg, fault, returned>>

\* the loop body up to c.chain.Delete(key)
InsertDelete ==
    \E t \in DOMAIN task :
        /\ Running
        /\ task[t].pc = "delete"
        /\ task' = [task EXCEPT
                      ![t].values = AppendWord(task[t].values, task[t].word),
                      ![t].pc = "store"]
        /\ chain' = MapDelete(chain, task[t].key)
        /\ UNCHANGED <<config, ch, closed, wg, fault, returned>>

\* values, notStored = c.chain.LoadOrStore(key, values): when the key is
\* present again the loop repeats with the value found there, otherwise the
\* value is stored and Insert returns
InsertLoadOrStore ==
    \E t \in DOMAIN task :
        /\ Running
        /\ task[t].pc = "store"
        /\ IF task[t].key \in DOMAIN chain
           THEN /\ task' = [task EXCEPT ![t].values = chain[task[t].key],
                                        ![t].seen = Stores(task[t].key),
                                        ![t].pc = "delete"]
                /\ UNCHANGED <<chain, returned, wg, fault>>
           ELSE /\ chain' = MapStore(chain, task[t].key, task[t].values)
                /\ returned' = returned (+) SetToBag({<<task[t].key, task[t].word>>})
                /\ task' = Mark([task EXCEPT ![t] = Advance(task[t])])
                /\ wg' = WgDone(wg, DoneCount(Advance(task[t])))
                /\ fault' = WgFault(wg, DoneCount(Advance(task[t])))
        /\ UNCHANGED <<config, ch, closed>>

(* ----------------------------- Chain.Build ---------------------------- *)
\* case 1: the sequential scan
BuildSeq ==
    /\ Running
    /\ task[Main].pc = "build"
    /\ workers = 1
    /\ task' = [task EXCEPT ![Main] =
                  RangeNext([@ EXCEPT !.kind = "seq", !.p = NewPrefix(prefixLen),
                                      !.j = 0, !.end = Len(words)])]
    /\ UNCHANGED <<config, chain, ch, closed, wg, fault, returned>>

\* case 0: BuildGo; the three variants start with
\* `for _, word := range words[:c.prefixLen]`, and the slice expression
\* panics when prefixLen exceeds cap(words), which is len(words) for the
\* result of strings.Fields
BuildGo ==
    /\ Running
    /\ task[Main].pc = "build"
    /\ workers = 0
    /\ IF prefixLen > Len(words)
       THEN /\ fault' = "slice bounds out of range"
            /\ UNCHANGED task
       ELSE /\ task' = [task EXCEPT ![Main] =
                  RangeNext([@ EXCEPT !.kind = "seed", !.p = NewPrefix(prefixLen),
                                      !.j = 0, !.end = prefixLen])]
            /\ UNCHANGED fault
    /\ UNCHANGED <<config, chain, ch, closed, wg, returned>>

\* default: BuildTP; wg.Add(workers), then the spawn loop
BuildTP ==
    /\ Running
    /\ task[Main].pc = "build"
    /\ workers > 1
    /\ wg' = wg + workers
    /\ task' = [task EXCEPT ![Main].kind = "pool", ![Main].pc = "spawn",
                            ![Main].j = 0]
    /\ UNCHANGED <<config, chain, ch, closed, fault, returned>>

\* the coordinator's next phase once its producers are spawned
AfterSpawn(r) ==
    IF inserters = 0 THEN [r EXCEPT !.pc = "wait2"]
    ELSE [r EXCEPT !.pc = "spawnc", !.j = 0]

\* one iteration of `for idx := c.prefixLen; idx < len(words); idx++`:
\* wg.Add(1) and the go statement; the task's key is
\* strings.Join(words[idx-c.prefixLen:idx], " ")
SpawnGo ==
    /\ Running
    /\ task[Main].pc = "spawn"
    /\ workers = 0
    /\ LET idx == task[Main].j IN
       IF idx < Len(words)
       THEN /\ wg' = wg + 1
            /\ task' = Mark((Prod(idx) :>
                          [NewTask("gotask", BodyPc) EXCEPT
                              !.key = Join(Slice(idx - prefixLen, idx), " "),
                              !.word = Word(idx), !.j = idx])
                       @@ [task EXCEPT ![Main].j = idx + 1])
       ELSE /\ task' = [task EXCEPT ![Main] = AfterSpawn(@)]
            /\ UNCHANGED wg
    /\ UNCHANGED <<config, chain, ch, closed, fault, returned>>

\* perWorker := len(words) / workers, plus one when there is a remainder
PerWorker == (Len(words) \div workers)
             + (IF Len(words) % workers # 0 THEN 1 ELSE 0)

SegStart(i) == PerWorker * i
\* a segment that runs one token into the next
SegEndOverlaps(i) == min(PerWorker * (i + 1) + 1, Len(words))

SegEnd(i) == min(PerWorker * (i + 1), Len(words))

\* one iteration of `for i := 0; i < workers; i++`: the go statement with
\* its start and end
SpawnWorker ==
    /\ Running
    /\ task[Main].pc = "spawn"
    /\ workers > 1
    /\ LET i == task[Main].j IN
       IF i < workers
       THEN task' = (Prod(i) :>
                        [NewTask("worker", "init") EXCEPT
                            !.start = SegStart(i), !.end = SegEnd(i),
                            !.j = SegStart(i)])
                    @@ [task EXCEPT ![Main].j = i + 1]
       ELSE task' = [task EXCEPT ![Main] = AfterSpawn(@)]
    /\ UNCHANGED <<config, chain, ch, closed, wg, fault, returned>>

\* the go statements of the consumers (one in Build*Channel, inserters in
\* Build*Channels)
SpawnConsumer ==
    /\ Running
    /\ task[Main].pc = "spawnc"
    /\ LET i == task[Main].j IN
       IF i < inserters
       THEN task' = (Cons(i) :> NewTask("consumer", "recv"))
                    @@ [task EXCEPT ![Main].j = i + 1]
       ELSE task' = [task EXCEPT ![Main].pc = "wait1"]
    /\ UNCHANGED <<config, chain, ch, closed, wg, fault, returned>>

\* a Wait that does not wait
WaitReadyAtOnce(counter) == TRUE

\* wg.Wait returns when the counter is zero
WaitReady(counter) == counter = 0

\* the first wg.Wait() of the channel strategies
WaitProducers ==
    /\ Running
    /\ task[Main].pc = "wait1"
    /\ WaitReady(wg)
    /\ task' = [task EXCEPT ![Main].pc = "add"]
    /\ UNCHANGED <<config, chain, ch, closed, wg, fault, returned>>

\* wg.Add(1) / wg.Add(inserters)
AddInserters ==
    /\ Running
    /\ task[Main].pc = "add"
    /\ wg' = wg + inserters
    /\ task' = [task EXCEPT ![Main].pc = "close"]
    /\ UNCHANGED <<config, chain, ch, closed, fault, returned>>

\* close(ch)
CloseChannel ==
    /\ Running
    /\ task[Main].pc = "close"
    /\ IF closed
       THEN /\ fault' = "close of closed channel"
            /\ UNCHANGED closed
       ELSE /\ closed' = TRUE
            /\ UNCHANGED fault
    /\ task' = [task EXCEPT ![Main].pc = "wait2"]
    /\ UNCHANGED <<config, chain, ch, wg, returned>>

\* the last wg.Wait(); Build returns after it
WaitFinal ==
    /\ Running
    /\ task[Main].pc = "wait2"
    /\ WaitReady(wg)
    /\ task' = [task EXCEPT ![Main].pc = "returned"]
    /\ UNCHANGED <<config, chain, ch, closed, wg, fault, returned>>

(* ------------------------ producers and consumers --------------------- *)
\* ch <- pair{key, word}: blocks while the channel is full, panics on a
\* closed channel
Send ==
    \E t \in DOMAIN task :
        /\ Running
        /\ task[t].pc = "send"
        /\ IF closed
           THEN /\ fault' = "send on closed channel"
                /\ UNCHANGED <<ch, task, wg>>
           ELSE /\ Len(ch) < ChanCap
                /\ ch' = Append(ch, <<task[t].key, task[t].word>>)
                /\ task' = [task EXCEPT ![t] = Advance(task[t])]
                /\ wg' = WgDone(wg, DoneCount(Advance(task[t])))
                /\ fault' = WgFault(wg, DoneCount(Advance(task[t])))
        /\ UNCHANGED <<config, chain, closed, returned>>

\* the indices words[start+idx-c.prefixLen] a worker reads for its context
ContextIdx(start) == {start + idx - prefixLen : idx \in 0..(prefixLen - 1)}

\* a worker that starts every segment from the empty Prefix
WorkerContextZeroed(start) == NewPrefix(prefixLen)

\* "Initialize Prefix": prefixLen empty strings for the worker that starts
\* at 0, the prefixLen words before start for the others
WorkerContext(start) ==
    IF start # 0
    THEN [idx \in 1..prefixLen |-> Word(start + (idx - 1) - prefixLen)]
    ELSE NewPrefix(prefixLen)

\* the head of a worker: the context reads, then the slice words[start:end];
\* an index or a slice bound out of range panics
WorkerInit ==
    \E t \in DOMAIN task :
        /\ Running
        /\ task[t].pc = "init"
        /\ LET start == task[t].start
               end == task[t].end
           IN  IF start # 0 /\ ~(ContextIdx(start) \subseteq 0..(Len(words) - 1))
               THEN /\ fault' = "index out of range"
                    /\ UNCHANGED <<task, wg>>
               ELSE IF ~(0 <= start /\ start <= end /\ end <= Len(words))
               THEN /\ fault' = "slice bounds out of range"
                    /\ UNCHANGED <<task, wg>>
               ELSE LET r == RangeNext([task[t] EXCEPT !.p = WorkerContext(start)])
                    IN  /\ task' = Mark([task EXCEPT ![t] = r])
                        /\ wg' = WgDone(wg, DoneCount(r))
                        /\ fault' = WgFault(wg, DoneCount(r))
        /\ UNCHANGED <<config, chain, ch, closed, returned>>

\* The consumers run the same code and share nothing but the channel, so
\* consumers blocked in the receive are interchangeable: the receive (or the
\* end of the range loop) is given to the lowest-numbered of them.
Receiver(t) ==
    /\ task[t].kind = "consumer"
    /\ task[t].pc = "recv"
    /\ \A u \in DOMAIN task :
          (task[u].kind = "consumer" /\ task[u].pc = "recv") => t[2] <= u[2]

\* one iteration of `for p := range ch`: key, word := p.a, p.b
ConsumerRecv ==
    \E t \in DOMAIN task :
        /\ Running
        /\ Receiver(t)
        /\ ch # <<>>
        /\ task' = Mark([task EXCEPT ![t].key = Head(ch)[1],
                                     ![t].word = Head(ch)[2],
                                     ![t].pc = "load"])
        /\ ch' = Tail(ch)
        /\ UNCHANGED <<config, chain, closed, wg, fault, returned>>

\* `for p := range ch` ends when the channel is closed and drained; the
\* consumer then calls wg.Done()
ConsumerExit ==
    \E t \in DOMAIN task :
        /\ Running
        /\ Receiver(t)
        /\ ch = <<>>
        /\ closed
        /\ task' = [task EXCEPT ![t].pc = "done"]
        /\ wg' = WgDone(wg, 1)
        /\ fault' = WgFault(wg, 1)
        /\ UNCHANGED <<config, chain, ch, closed, returned>>

(* --------------------------- specification ---------------------------- *)
Next ==
    \/ BuildSeq
    \/ BuildGo
    \/ BuildTP
    \/ SpawnGo
    \/ SpawnWorker
    \/ SpawnConsumer
    \/ WaitProducers
    \/ AddInserters
    \/ CloseChannel
    \/ WaitFinal
    \/ InsertLoad
    \/ InsertDelete
    \/ InsertLoadOrStore
    \/ Send
    \/ WorkerInit
    \/ ConsumerRecv
    \/ ConsumerExit

Spec == Init /\ [][Next]_vars

(* ------------------------- the sequential scan ------------------------ *)
\* the (key, word) pairs of Build's case 1, in order: key := p.String(),
\* c.Insert(key, word), p.Shift(word)
RECURSIVE ScanPairs(_, _)
ScanPairs(ws, p) ==
    IF ws = <<>> THEN <<>>
    ELSE <<<<String(p), Head(ws)>>>> \o ScanPairs(Tail(ws), Shift(p, Head(ws)))

\* Insert without concurrency: append to the key's collection, or create it
Put(tbl, key, word) ==
    IF key \in DOMAIN tbl THEN [tbl EXCEPT ![key] = Append(@, word)]
    ELSE (key :> <<word>>) @@ tbl

RECURSIVE PutAll(_, _)
PutAll(tbl, pairs) ==
    IF pairs = <<>> THEN tbl
    ELSE PutAll(Put(tbl, Head(pairs)[1], Head(pairs)[2]), Tail(pairs))

\* the table the sequential scan leaves
SeqTable == PutAll(<<>>, ScanPairs(words, NewPrefix(prefixLen)))

\* the map `correct` of the correctness test
correct ==
    (" " :> <<"I">>) @@ (" I" :> <<"am">>) @@ ("I am" :> <<"a", "not">>)
    @@ ("a free" :> <<"man!">>) @@ ("am a" :> <<"free">>)
    @@ ("am not" :> <<"a">>) @@ ("a number!" :> <<"I">>)
    @@ ("number! I" :> <<"am">>) @@ ("not a" :> <<"number!">>)

(* ---------------------------- observations ---------------------------- *)
Returned == task[Main].pc = "returned"

SeqToBag(s) ==
    [x \in {s[i] : i \in DOMAIN s} |-> Cardinality({i \in DOMAIN s : s[i] = x})]

\* a table up to the order inside each collection (Equal of the test sorts
\* both sides before it compares)
TableBags(tbl) == [k \in DOMAIN tbl |-> SeqToBag(tbl[k])]

RECURSIVE SumLen(_, _)
SumLen(tbl, keys) ==
    IF keys = {} THEN 0
    ELSE LET k == CHOOSE x \in keys : TRUE
         IN  Len(tbl[k]) + SumLen(tbl, keys \ {k})

\* the number of successor tokens stored across all keys
Total == SumLen(chain, DOMAIN chain)

\* the corpus with prefixLen empty strings in front, and the window of
\* prefixLen tokens that precedes token j (0-based) in it
Padded == NewPrefix(prefixLen) \o words
Window(j) == SubSeq(Padded, j + 1, j + prefixLen)
PaddedKey(j) == Join(Window(j), " ")

\* for each window of the first m tokens, the tokens that follow its
\* occurrences, in corpus order
Followers(key, m) ==
    LET occ == SelectSeq([i \in 1..m |-> i - 1], LAMBDA j : PaddedKey(j) = key)
    IN  [i \in 1..Len(occ) |-> Word(occ[i])]
OccurrenceTable(m) ==
    [key \in {PaddedKey(j) : j \in 0..(m - 1)} |-> Followers(key, m)]

Producers == {t \in DOMAIN task : t[1] = "prod"}
Consumers == {t \in DOMAIN task : t[1] = "cons"}
Workers == {t \in DOMAIN task : task[t].kind = "worker"}

\* the tokens of the Insert calls on `key` that have returned, as a bag
ReturnedAt(key) ==
    [w \in {pr[2] : pr \in {q \in BagToSet(returned) : q[1] = key}}
       |-> returned[<<key, w>>]]

InFlight(key) ==
    \E t \in DOMAIN task : InInsert(task[t]) /\ task[t].key = key

CeilDiv(a, b) == (a + b - 1) \div b

(* --------------------------- Chain.Generate --------------------------- *)
\* main calls Generate(numWords) on the table Build has returned with.  The
\* walk is specified on its own: it starts in the state the sequential Build
\* returns in, and the coordinator's record holds Generate's locals: p the
\* Prefix, j the loop counter i, end the argument n (up to MaxWords), values
\* the slice words.

GenInit ==
    /\ \E w \in Corpora(MaxLen) \cup {SimpleWords}, q \in 1..MaxPrefix :
          /\ words = w
          /\ prefixLen = q
    /\ workers = 1
    /\ inserters = 0
    /\ chain = SeqTable
    /\ ch = <<>>
    /\ closed = FALSE
    /\ wg = 0
    /\ task = (Main :> [NewTask("seq", "returned") EXCEPT
                           !.p = Window(Len(words)), !.j = Len(words),
                           !.end = Len(words)])
    /\ fault = "none"
    /\ returned = SeqToBag(ScanPairs(words, NewPrefix(prefixLen)))

\* a loop that runs once more
GenContinueInclusive(i, n) == i <= n

\* the loop condition of `for i := 0; i < n; i++`
GenContinue(i, n) == i < n

\* the call: p := make(Prefix, c.prefixLen); var words []string
GenerateStart ==
    /\ Running
    /\ task[Main].pc = "returned"
    /\ \E n \in 0..MaxWords :
          task' = [task EXCEPT ![Main] =
                     [@ EXCEPT !.kind = "generate", !.pc = "gen",
                               !.p = NewPrefix(prefixLen), !.values = <<>>,
                               !.j = 0, !.end = n]]
    /\ UNCHANGED <<config, chain, ch, closed, wg, fault, returned>>

\* one test of the loop condition and, when it holds, one iteration: Load
\* of p.String(), break on nil, otherwise a word at a random index is
\* appended and shifted into p
GenerateStep ==
    /\ Running
    /\ task[Main].pc = "gen"
    /\ LET r == task[Main]
           choices == MapLoad(chain, String(r.p))
       IN  IF GenContinue(r.j, r.end) /\ choices # Nil
           THEN \E k \in 1..Len(choices) :
                   task' = [task EXCEPT ![Main] =
                              [r EXCEPT !.values = Append(r.values, choices[k]),
                                        !.p = Shift(r.p, choices[k]),
                                        !.j = r.j + 1]]
           ELSE task' = [task EXCEPT ![Main].pc = "generated"]
    /\ UNCHANGED <<config, chain, ch, closed, wg, fault, returned>>

GenNext ==
    \/ GenerateStart
    \/ GenerateStep

GenSpec == GenInit /\ [][GenNext]_vars

(* ------------------------------- claims ------------------------------- *)
\* C1: when Build returns, under every strategy and every interleaving, the
\* table has the key set of the sequential scan's table and, per key, the
\* same multiset of successor tokens.
C1_StrategyEquivalence ==
    Returned => TableBags(chain) = TableBags(SeqTable)

\* C2: Insert is an atomic per-key append: whenever no Insert on a key is in
\* flight, the collection stored at the key is, as a multiset, exactly the
\* tokens of the Insert calls on that key that have returned.
C2_AtomicAppend ==
    \A key \in (DOMAIN chain) \cup {pr[1] : pr \in BagToSet(returned)} :
        ~InFlight(key) => SeqToBag(MapLoad(chain, key)) = ReturnedAt(key)

C4_InsertionsCompleteAtReturn ==
    (Returned /\ workers # 1) =>
        /\ ch = <<>>
        /\ \A t \in Producers \cup Consumers : task[t].pc = "done"
        /\ Cardinality(Consumers) = inserters
        /\ Cardinality(Producers) =
              (IF workers = 0 THEN Len(words) - prefixLen ELSE workers)
        /\ returned = SeqToBag(ScanPairs(words, NewPrefix(prefixLen)))

C4_Witness ==
    /\ Returned
    /\ workers # 1
    /\ inserters > 1
    /\ Len(words) > prefixLen

\* C5: every Build call runs to completion; in particular no reachable state
\* has every task blocked on a channel operation or on the WaitGroup while
\* Build has not returned.
C5_NoTaskBlockedForever ==
    (Running /\ ~Returned) => ENABLED Next

\* C6: Build on a corpus shorter than prefixLen does not crash, under any
\* strategy.
C6_ShortCorpusNoCrash ==
    Len(words) < prefixLen => fault = "none"

\* C7: in the partitioned strategies worker i gets start = ceil(n/W)*i and
\* end = min(ceil(n/W)*(i+1), n), with 0 <= start <= end <= n.
C7_SegmentsInBounds ==
    \A t \in Workers :
        /\ task[t].start = CeilDiv(Len(words), workers) * t[2]
        /\ task[t].end = min(CeilDiv(Len(words), workers) * (t[2] + 1), Len(words))
        /\ 0 <= task[t].start
        /\ task[t].start <= task[t].end
        /\ task[t].end <= Len(words)

\* C8: a worker whose start is not 0 reads its context only at indices
\* inside 0..len(words)-1, and the worker that starts at 0 begins with an
\* all-empty Prefix.
C8_ContextReadsInBounds ==
    /\ fault # "index out of range"
    /\ \A t \in Workers :
          (task[t].pc # "init" /\ task[t].start = 0 /\ task[t].j = 0)
              => task[t].p = NewPrefix(prefixLen)

\* C9: every key a worker of a partitioned strategy uses at token offset j,
\* its first one included, is the join of the prefixLen tokens that precede j
\* in the corpus padded in front with prefixLen empty strings.
C9_WorkerKeysMatchScan ==
    \A t \in Workers :
        task[t].pc \in {"load", "delete", "store", "send"} =>
            /\ task[t].p = Window(task[t].j)
            /\ task[t].key = PaddedKey(task[t].j)
            /\ task[t].word = Word(task[t].j)

C9_Witness ==
    \E t \in Workers :
        /\ t[2] > 0
        /\ task[t].pc \in {"load", "send"}
        /\ task[t].j = task[t].start
        /\ task[t].key # String(NewPrefix(prefixLen))
        /\ \E i \in 1..(prefixLen - 1) : task[t].p[i] # task[t].p[i + 1]

\* C10: the sequential strategy inserts, for each token in corpus order, the
\* token under the key of the current Prefix and then shifts the Prefix,
\* starting from prefixLen empty strings; its final table maps each window to
\* the tokens that follow its occurrences in the padded corpus, one entry per
\* occurrence, and for the test corpus it is the map `correct`.
C10_SequentialTable ==
    workers = 1 =>
        /\ InInsert(task[Main]) =>
              /\ task[Main].p = Window(task[Main].j)
              /\ task[Main].key = PaddedKey(task[Main].j)
              /\ task[Main].word = Word(task[Main].j)
        /\ task[Main].pc = "load" => chain = OccurrenceTable(task[Main].j)
        /\ Returned =>
              /\ chain = OccurrenceTable(Len(words))
              /\ (words = SimpleWords /\ prefixLen = 2)
                    => TableBags(chain) = TableBags(correct)

C10_Witness ==
    /\ workers = 1
    /\ Returned
    /\ words = SimpleWords
    /\ Len(chain["I am"]) = 2

\* C11: once Build has returned nothing runs any more: every producer,
\* consumer and per-token task has finished and no step of the build, in
\* particular no Load, Delete or LoadOrStore, is possible, so the table stays
\* as it is and any two lookups of a key give the same collection.
C11_QuiescentAfterReturn ==
    Returned =>
        /\ \A t \in (DOMAIN task) \ {Main} : task[t].pc = "done"
        /\ ~ENABLED Next

C11_Witness ==
    /\ Returned
    /\ Cardinality(Consumers) > 1
    /\ \E key \in DOMAIN chain : Len(chain[key]) > 1

\* C12: Insert calls on different keys do not interfere.  A call on a key
\* that no other task has had an Insert on since the call began (solo), with
\* calls on other keys interleaved at will, appends its token to the
\* collection that is at the key, finds the key absent at its LoadOrStore,
\* and returns from that first pass having stored that collection: no other
\* call has stored at the key since its Load, and it does not go round the
\* loop again.
C12_SoloInsertSinglePass ==
    [][\A t \in DOMAIN task :
          LET r == task[t] IN
          /\ (r.solo /\ r.pc = "delete" /\ task'[t].pc = "store") =>
                /\ r.values = MapLoad(chain, r.key)
                /\ r.seen = Stores(r.key)
                /\ task'[t].values = MapLoad(chain, r.key) \o <<r.word>>
          /\ (r.solo /\ r.pc = "store" /\ task'[t].pc # "store") =>
                /\ task'[t].pc # "delete"
                /\ r.seen = Stores(r.key)
                /\ r.key \notin DOMAIN chain
                /\ chain' = MapStore(chain, r.key, r.values)
                /\ returned' = returned (+) SetToBag({<<r.key, r.word>>})
      ]_vars

C12_Witness ==
    \E t \in DOMAIN task :
        /\ task[t].solo
        /\ task[t].pc = "store"
        /\ Len(task[t].values) > 1
        /\ \E u \in (DOMAIN task) \ {t} :
              task[u].pc \in {"delete", "store"} /\ task[u].key # task[t].key

\* C13: Generate(n) walks from the all-empty Prefix: the k-th word it emits
\* is a member of the collection stored at the key of the prefixLen words
\* before it (empty strings in front), which is present; it emits at most n
\* words, none when n = 0 or the table is empty, and it stops short of n
\* only at a Prefix whose key is absent.
C13_GenerateWalk ==
    LET r == task[Main]
        out == r.values
        walk == NewPrefix(prefixLen) \o out
    IN  r.kind = "generate" =>
           /\ Len(out) <= r.end
           /\ (r.end = 0 \/ DOMAIN chain = {}) => out = <<>>
           /\ r.p = SubSeq(walk, Len(out) + 1, Len(out) + prefixLen)
           /\ \A k \in 1..Len(out) :
                 LET key == String(SubSeq(walk, k, k + prefixLen - 1))
                 IN  /\ key \in DOMAIN chain
                     /\ \E c \in 1..Len(chain[key]) : chain[key][c] = out[k]
           /\ (r.pc = "generated" /\ Len(out) < r.end) =>
                 String(r.p) \notin DOMAIN chain

C13_Witness ==
    /\ task[Main].kind = "generate"
    /\ task[Main].pc = "generated"
    /\ Len(task[Main].values) > 1
    /\ Len(task[Main].values) < task[Main].end

\* the number of producer tasks a channel strategy spawns
ProducerCount ==
    IF workers = 0 THEN Len(words) - prefixLen ELSE workers

\* C14: in the channel strategies the channel is closed once, by the
\* coordinator, after every producer (the coordinator's own seeding
\* included) has finished publishing: when the channel is closed the
\* coordinator is past close(ch), every producer has been spawned and is
\* done, and no task is at a send; no send and no second close ever hits the
\* closed channel; and Build returns only after the close, with the channel
\* drained and every consumer out of its loop.
C14_CloseAfterProducers ==
    /\ fault \notin {"send on closed channel", "close of closed channel"}
    /\ task[Main].pc = "close" => ~closed
    /\ closed =>
          /\ task[Main].pc \in {"wait2", "returned"}
          /\ Cardinality(Producers) = ProducerCount
          /\ \A t \in Producers : task[t].pc = "done"
          /\ \A t \in DOMAIN task : task[t].pc # "send"
    /\ (Returned /\ workers # 1 /\ inserters > 0) =>
          /\ closed
          /\ ch = <<>>
          /\ Cardinality(Consumers) = inserters
          /\ \A t \in Consumers : task[t].pc = "done"

C14_Witness ==
    /\ closed
    /\ ch # <<>>
    /\ \E t \in Consumers : InInsert(task[t])
    /\ \E t \in Consumers : task[t].pc = "recv"

\* C15: in the single-channel strategies (I = 1, W # 1) every Insert call is
\* made by the one consumer, so at most one Insert is in flight at any
\* moment, and when Build returns the table equals the sequential table, key
\* by key as a multiset, under every interleaving.
C15_SingleConsumerInserts ==
    (inserters = 1 /\ workers # 1) =>
        /\ \A t \in DOMAIN task : InInsert(task[t]) => t = Cons(0)
        /\ Cardinality({t \in DOMAIN task : InInsert(task[t])}) <= 1
        /\ \A t \in DOMAIN task : task[t].solo
        /\ Returned => TableBags(chain) = TableBags(SeqTable)

C15_Witness ==
    /\ inserters = 1
    /\ Cardinality(Producers) > 1
    /\ Returned
    /\ \E key \in DOMAIN chain : Len(chain[key]) > 1

\* C16: Insert publishes by compare-and-swap on the snapshot it loaded: a
\* LoadOrStore that is about to store (the key is absent) belongs to a call
\* since whose last load of the key no other call has stored a collection
\* there; when another call has, the key is present, the publication fails
\* and the call retries with the collection it finds.
C16_PublishOnlyOnUnchangedSnapshot ==
    \A t \in DOMAIN task :
        (task[t].pc = "store" /\ task[t].seen # Stores(task[t].key)) =>
            task[t].key \in DOMAIN chain

\* the token indices of worker i's segment words[start:end], the (key, word)
\* pair the sequential scan makes at index x, the indices the workers have
\* got past, and how often a pair has been handed over: stored by a returned
\* Insert, waiting in the channel, or in a consumer's hands
Segment(i) == {x \in 0..(Len(words) - 1) : SegStart(i) <= x /\ x < SegEnd(i)}
PairAt(x) == <<PaddedKey(x), Word(x)>>
Passed ==
    UNION {{x \in 0..(Len(words) - 1) : task[t].start <= x /\ x < task[t].j}
              : t \in Workers}
Handed(pr) ==
    CopiesIn(pr, returned)
    + Cardinality({i \in 1..Len(ch) : ch[i] = pr})
    + Cardinality({t \in Consumers :
                      InInsert(task[t]) /\ <<task[t].key, task[t].word>> = pr})

\* C17: in the partitioned strategies (W > 1), when the coordinator computes
\* the segments, every token index lies in the segment of exactly one
\* worker; the non-empty segments come first, each of them but the last has
\* ceil(len(words)/W) indices, and the segments after the last non-empty
\* one hold no index; every worker holds the start and end of its segment;
\* each token a worker has got past has been inserted, or published as a
\* WorkItem, exactly once, with the pair of the sequential scan, and the
\* workers have got past every token when Build returns.
C17_SegmentsPartitionCorpus ==
    workers > 1 =>
        LET W == 0..(workers - 1)
            segment == [i \in W |-> Segment(i)]
            nonEmpty == {i \in W : segment[i] # {}}
            pairAt == [x \in 0..(Len(words) - 1) |-> PairAt(x)]
            passed == Passed
            pairs == {pairAt[x] : x \in 0..(Len(words) - 1)}
                     \cup BagToSet(returned) \cup {ch[i] : i \in 1..Len(ch)}
        IN  /\ task[Main].pc = "spawn" =>
                  /\ \A x \in 0..(Len(words) - 1) :
                        Cardinality({i \in W : x \in segment[i]}) = 1
                  /\ \A i \in W :
                        /\ (\E k \in nonEmpty : i < k) =>
                              /\ SegEnd(i) - SegStart(i)
                                    = CeilDiv(Len(words), workers)
                              /\ Cardinality(segment[i])
                                    = CeilDiv(Len(words), workers)
                        /\ (\A k \in nonEmpty : k < i) => segment[i] = {}
            /\ \A t \in Workers :
                  /\ task[t].start = SegStart(t[2])
                  /\ task[t].end = SegEnd(t[2])
            /\ \A pr \in pairs :
                  Handed(pr) = Cardinality({x \in passed : pairAt[x] = pr})
            /\ Returned => passed = 0..(Len(words) - 1)

C17_Witness ==
    /\ Returned
    /\ workers = 2
    /\ Len(words) = 3
    /\ Cardinality({pr \in BagToSet(returned) : Handed(pr) > 1}) = 1

\* the coordinator of a goroutine strategy is seeding (inside the loop over
\* words[:prefixLen]); the positions it has got past; the position up to
\* which it has spawned; the positions whose task has inserted or sent
Seeding == task[Main].pc \in {"load", "delete", "store", "send"}
SeedsPassed ==
    IF task[Main].pc = "build" THEN {}
    ELSE IF Seeding THEN 0..(task[Main].j - 1)
    ELSE 0..(prefixLen - 1)
SpawnCursor ==
    IF task[Main].pc = "build" \/ Seeding THEN prefixLen
    ELSE IF task[Main].pc = "spawn" THEN task[Main].j
    ELSE Len(words)
TasksPassed == {t[2] : t \in {u \in Producers : task[u].pc = "done"}}

\* C18: in the goroutine strategies (W = 0) the coordinator handles the
\* first prefixLen tokens itself with a rolling Prefix, and spawns exactly
\* one task for each position idx from prefixLen to len(words) - 1, whose
\* key is the join of the prefixLen words before idx, the key the sequential
\* scan has at idx; each position that is got past has handed over exactly
\* one pair, the pair of the sequential scan, and every position is got past
\* when Build returns.
C18_GoTasksMatchScan ==
    workers = 0 =>
        LET pairAt == [x \in 0..(Len(words) - 1) |-> PairAt(x)]
            pairs == {pairAt[x] : x \in 0..(Len(words) - 1)}
                     \cup BagToSet(returned) \cup {ch[i] : i \in 1..Len(ch)}
            passed == SeedsPassed \cup TasksPassed
        IN  /\ Seeding =>
                  /\ task[Main].j < prefixLen
                  /\ task[Main].p = Window(task[Main].j)
                  /\ <<task[Main].key, task[Main].word>> = PairAt(task[Main].j)
            /\ Producers = {Prod(idx) : idx \in prefixLen..(SpawnCursor - 1)}
            /\ \A t \in Producers :
                  /\ task[t].kind = "gotask"
                  /\ task[t].j = t[2]
                  /\ task[t].key = String(SubSeq(words, t[2] - prefixLen + 1, t[2]))
                  /\ <<task[t].key, task[t].word>> = pairAt[t[2]]
            /\ \A pr \in pairs :
                  Handed(pr) = Cardinality({x \in passed : pairAt[x] = pr})
            /\ Returned => passed = 0..(Len(words) - 1)

C18_Witness ==
    /\ workers = 0
    /\ \E t, u \in Producers :
          /\ task[t].pc \in {"load", "send"}
          /\ task[u].pc = "done"
          /\ task[t].key # task[u].key

\* C19: the WaitGroup a channel-based Build uses for its two phases never
\* has a negative counter.  Until the coordinator's second Add the counter is
\* the number of producers that have been added and are not done, and after
\* it the number of consumers still in their loop: a consumer is done only
\* when the channel is closed, which is after the second Add, and the
\* coordinator is past its first Wait only when every producer is spawned
\* and done and nothing is left to send.
C19_WaitGroupNeverNegative ==
    /\ wg >= 0
    /\ fault # "negative WaitGroup counter"
    /\ (workers # 1 /\ inserters > 0) =>
          LET pending == Cardinality({t \in Producers : task[t].pc # "done"})
              exited == Cardinality({t \in Consumers : task[t].pc = "done"})
              secondPhase == task[Main].pc \in {"close", "wait2", "returned"}
          IN  /\ \A t \in Consumers :
                    task[t].pc = "done" => (closed /\ secondPhase)
              /\ task[Main].pc \in {"add", "close", "wait2", "returned"} =>
                    /\ Cardinality(Producers) = ProducerCount
                    /\ pending = 0
                    /\ \A t \in DOMAIN task : task[t].pc # "send"
              /\ (~secondPhase /\ task[Main].pc # "build") =>
                    wg = pending + (IF workers = 0 THEN 0
                                    ELSE workers - Cardinality(Producers))
              /\ secondPhase => wg = inserters - exited

C19_Witness ==
    /\ inserters = 2
    /\ wg = 1
    /\ \E t \in Consumers : task[t].pc = "done"
    /\ \E t \in Consumers : InInsert(task[t])

\* C20: during a build the collection of a key only grows: from one moment
\* to the next every key that is present stays present, with a collection at
\* least as long that contains the earlier one as a multiset, so no lookup
\* finds a key absent or shorter after an earlier lookup found it.
C20_CollectionsOnlyGrow ==
    [][\A key \in DOMAIN chain :
          /\ key \in DOMAIN chain'
          /\ Len(chain'[key]) >= Len(chain[key])
          /\ SeqToBag(chain[key]) \sqsubseteq SeqToBag(chain'[key])
      ]_vars

====
